---- MODULE Spec2Model ----
(***************************************************************************)
(* State-machine model of src/lib/model/model.cpp (namespace atidlas):     *)
(* the per-model program cache (model::init), variant selection            *)
(* (model::execute), exhaustive tuning (model::tune) and the per-queue     *)
(* model registry (init_models, import, get_model_map, get_model).         *)
(*                                                                         *)
(* Indices are 0-based as in the C++ code; a C++ vector v is a TLA+        *)
(* sequence s with v[i] = s[i + 1].                                        *)
(***************************************************************************)
EXTENDS Integers, Sequences, FiniteSets, TLC

(***************************************************************************)
(* Bounds of the model.                                                    *)
(***************************************************************************)
\* largest number of templates of the stand-alone model drawn by Init
MaxVariants == 2
\* predicted costs and measured timings range over 1..MaxCost
MaxCost == 2
\* execute is not started while more than this many kernels are in flight on
\* the queue
MaxQueue == 0

(***************************************************************************)
(* Values.                                                                 *)
(***************************************************************************)
NULL == "NULL"

Contexts == {"ctx1", "ctx2"}

Queues == {"q1", "q2"}

\* queue_.getInfo<CL_QUEUE_CONTEXT>(): the context a queue was created on
queue_context(q) == IF q = "q1" THEN "ctx1" ELSE "ctx2"

\* input sizes that templates_[0]->input_sizes can report
Shapes == {<<64>>, <<128>>}

Costs == 1..MaxCost

\* the expression batches handed to execute and tune.  leaves is the list of
\* buffer handles met by the traversal of the expressions, sizes the input
\* sizes of the operation.
Batches ==
  { [context |-> "ctx1", order |-> "SEQUENTIAL",  leaves |-> <<"h1", "h2">>, sizes |-> <<64>>],
    [context |-> "ctx1", order |-> "SEQUENTIAL",  leaves |-> <<"h2", "h1">>, sizes |-> <<128>>],
    [context |-> "ctx1", order |-> "INDEPENDENT", leaves |-> <<"h1", "h1">>, sizes |-> <<64>>],
    [context |-> "ctx2", order |-> "SEQUENTIAL",  leaves |-> <<"h1", "h2">>, sizes |-> <<64>>] }

(***************************************************************************)
(* Helpers on sequences and partial functions (std::vector, std::map).     *)
(***************************************************************************)
Range(s) == {s[i] : i \in DOMAIN s}

\* the empty std::map
EmptyMap == [k \in {} |-> NULL]

\* std::map::operator[] used as an lvalue: m[k] = v
MapPut(m, k, v) == [x \in (DOMAIN m) \cup {k} |-> IF x = k THEN v ELSE m[x]]

\* s with its (1-based) element i replaced by v
SeqSet(s, i, v) == [s EXCEPT ![i] = v]

\* std::distance(v.begin(), std::min_element(v.begin(), v.end())) as a 0-based
\* index, taking the last of several smallest elements instead of the first
min_element_last(v) ==
  IF v = <<>> THEN 0
  ELSE (CHOOSE i \in DOMAIN v :
          /\ \A j \in DOMAIN v : v[i] <= v[j]
          /\ \A j \in DOMAIN v : (v[j] = v[i]) => j <= i) - 1

\* std::min_element returns the first of the smallest elements, and end()
\* (= begin(), distance 0) for an empty range
min_element(v) ==
  IF v = <<>> THEN 0
  ELSE (CHOOSE i \in DOMAIN v :
          /\ \A j \in DOMAIN v : v[i] <= v[j]
          /\ \A j \in DOMAIN v : (v[j] = v[i]) => i <= j) - 1

(***************************************************************************)
(* Collaborators of the model layer (called, not defined, by model.cpp).   *)
(***************************************************************************)
\* symbolic_binder of a traversal: bind_to_handle gives every leaf the number
\* of the first leaf with the same handle, bind_all_unique gives every leaf a
\* number of its own
bind(policy, leaves, k) ==
  IF policy = "BIND_TO_HANDLE"
    THEN (CHOOSE j \in 1..k : leaves[j] = leaves[k] /\ \A h \in 1..(j - 1) : leaves[h] # leaves[k]) - 1
    ELSE k - 1

\* templates_[0]->input_sizes(symbolic_expressions)
input_sizes(tpl, batch) == batch.sizes

\* templates_[i]->generate(i, symbolic_expressions, device): the source of the
\* kernels of variant i and the source of their fallback
generate(tpl, i, batch) ==
  << [label |-> i, name |-> tpl.name, fallback |-> FALSE],
     [label |-> i, name |-> tpl.name, fallback |-> TRUE] >>

\* cl_ext::lazy_compiler(context, name, force_recompilation)
lazy_compiler(context, name, force_recompilation) ==
  [context |-> context, name |-> name, force_recompilation |-> force_recompilation,
   sources |-> <<>>]

\* lazy_compiler::add(source)
add(compiler, source) == [compiler EXCEPT !.sources = Append(@, source)]

\* queue_.finish() returns when nothing is in flight on the queue; the variant
\* that never waits
finish_nowait(pending) == TRUE

finish_returns(pending) == pending = <<>>

(***************************************************************************)
(* model.cpp, class model.                                                 *)
(***************************************************************************)
\* device.getInfo<CL_DEVICE_EXTENSIONS>() of the device of the queues
device_extensions == {"cl_khr_fp64", "cl_khr_global_int32_base_atomics"}

\* model::define_extension
define_extension(extensions, ext) ==
  IF ext \in extensions THEN "#pragma OPENCL EXTENSION " \o ext \o " : enable\n" ELSE ""

\* model::fill_program_name: 'i' or 's', then what the traversal of every
\* expression writes for its leaves
fill_program_name(batch, binding_policy) ==
  << IF batch.order = "INDEPENDENT" THEN "i" ELSE "s" >>
    \o [k \in DOMAIN batch.leaves |-> bind(binding_policy, batch.leaves, k)]

\* char program_name[256] of model::init
program_name_size == 256

\* what model::init reads back from program_name (lines 50-52), as the build
\* can behave.  fill_program_name writes the name and a terminating zero
\* without looking at the size of the buffer; when they do not fit, the write
\* runs past the buffer (undefined behaviour): the call crashes, or goes on
\* with the whole name, or with the name cut where the overwritten memory was
\* given a zero by someone else.
pname_read(batch) ==
  LET name == fill_program_name(batch, "BIND_TO_HANDLE")
  IN IF Len(name) + 1 <= program_name_size
       THEN {[crash |-> FALSE, overrun |-> FALSE, pname |-> name]}
       ELSE {[crash |-> TRUE, overrun |-> TRUE, pname |-> name],
             [crash |-> FALSE, overrun |-> TRUE, pname |-> name],
             [crash |-> FALSE, overrun |-> TRUE, pname |-> SubSeq(name, 1, program_name_size - 1)]}

\* predictor_.get() == NULL: a shared_ptr holds no random forest (<<>>) or one
\* (<<forest>>)
NoPredictor == <<>>

\* what predictor_->predict(x) can return for a model of n templates: one
\* predicted cost per template
Predictions(n) == [1..n -> Costs]

\* the three constructors of model: templates_, predictor_ (NoPredictor
\* without a predictor), queue_; hardcoded_ and lazy_programs_ start empty
model(predictor, templates, queue) ==
  [templates_ |-> templates, predictor_ |-> predictor, queue_ |-> queue,
   hardcoded_ |-> EmptyMap, lazy_programs_ |-> EmptyMap]

\* lazy_programs_[context()][pname]: the key of a program set
program_key(batch) == <<batch.context, fill_program_name(batch, "BIND_TO_HANDLE")>>

\* the guard of the cache fill in model::init; the variant that rebuilds on
\* every call
to_init_always(to_init) == TRUE

to_init_empty(to_init) == to_init = <<>>

\* the priority of model::execute with the random forest asked before the
\* override table
execute_branch_predictor_first(m, x, bypass_predictor) ==
  IF ~bypass_predictor THEN "default"
  ELSE IF x \in DOMAIN m.hardcoded_ THEN "hardcoded"
  ELSE "bypass"

\* the priority of model::execute with the caller's bypass ignored
execute_branch_no_bypass(m, x, bypass_predictor) ==
  IF x \in DOMAIN m.hardcoded_ THEN "hardcoded"
  ELSE IF m.predictor_ = NoPredictor THEN "bypass"
  ELSE "default"

\* model::execute, lines 98-104: which branch of the if / else if / else
\* chain sets label
execute_branch(m, x, bypass_predictor) ==
  IF x \in DOMAIN m.hardcoded_ THEN "hardcoded"
  ELSE IF bypass_predictor THEN "bypass"
  ELSE "default"

\* model::execute, lines 99, 102 and 107: the label each branch sets;
\* predictions is what predictor_->predict(x) returned in the last branch
execute_label(m, x, branch, predictions) ==
  CASE branch = "hardcoded" -> m.hardcoded_[x]
    [] branch = "bypass" -> 0
    [] branch = "default" -> min_element(predictions)

\* templates_[0]->input_sizes(symbolic_expressions), lines 95 and 134, as the
\* build can behave: with templates the sizes variant 0 reports; on an empty
\* templates_ the subscript is out of bounds (undefined behaviour), and the
\* call crashes or goes on with whatever sizes it reads
sizes_read(m, batch) ==
  IF m.templates_ = <<>>
    THEN {[crash |-> TRUE, x |-> <<>>]} \cup {[crash |-> FALSE, x |-> x] : x \in Shapes}
    ELSE {[crash |-> FALSE, x |-> input_sizes(m.templates_[1], batch)]}

\* templates_[label]->enqueue(...), line 111: whether the call can crash
\* (label out of bounds: undefined behaviour) and whether it can go on
enqueue_outcomes(m, label) ==
  IF label < Len(m.templates_) THEN {FALSE} ELSE {TRUE, FALSE}

\* model::tune, "Fill the override", recording the slowest template
fill_override_max(m, x, timings) ==
  [m EXCEPT !.hardcoded_ = MapPut(@, x, min_element([k \in DOMAIN timings |-> 0 - timings[k]]))]

\* model::tune, "Fill the override", with the table replaced by the new entry
fill_override_only(m, x, timings) ==
  [m EXCEPT !.hardcoded_ = MapPut(EmptyMap, x, min_element(timings))]

\* model::tune, "Fill the override": hardcoded_[x] = argmin(timings)
fill_override(m, x, timings) ==
  [m EXCEPT !.hardcoded_ = MapPut(@, x, min_element(timings))]

(***************************************************************************)
(* model.cpp, the registry: detail::*, import, init_models.                *)
(***************************************************************************)
\* the expression_type enumerators init_models registers
ExpressionTypes ==
  {"SCALAR_AXPY_TYPE", "VECTOR_AXPY_TYPE", "REDUCTION_TYPE", "MATRIX_AXPY_TYPE",
   "ROW_WISE_REDUCTION_TYPE", "COL_WISE_REDUCTION_TYPE",
   "MATRIX_PRODUCT_NN_TYPE", "MATRIX_PRODUCT_TN_TYPE",
   "MATRIX_PRODUCT_NT_TYPE", "MATRIX_PRODUCT_TT_TYPE"}

\* numeric_type types[] of init_models without its last element
types_but_last ==
  <<"CHAR_TYPE", "UCHAR_TYPE", "SHORT_TYPE", "USHORT_TYPE", "INT_TYPE", "UINT_TYPE",
    "LONG_TYPE", "ULONG_TYPE", "FLOAT_TYPE">>

\* numeric_type types[] of init_models
types ==
  <<"CHAR_TYPE", "UCHAR_TYPE", "SHORT_TYPE", "USHORT_TYPE", "INT_TYPE", "UINT_TYPE",
    "LONG_TYPE", "ULONG_TYPE", "FLOAT_TYPE", "DOUBLE_TYPE">>

\* fetching_policy_type fetch[] of detail::create
fetch == <<"FETCH_FROM_LOCAL", "FETCH_FROM_GLOBAL_STRIDED", "FETCH_FROM_GLOBAL_CONTIGUOUS">>

\* a template object: its class and its constructor arguments
template(class, a) == [name |-> class, a |-> a]

\* detail::get_expression_type with "vaxpy" taken for the scalar operation
get_expression_type_scalar(name) ==
  CASE name = "vaxpy" -> "SCALAR_AXPY_TYPE"
    [] name = "dot" -> "REDUCTION_TYPE"
    [] name = "maxpy" -> "MATRIX_AXPY_TYPE"
    [] name = "gemvN" -> "ROW_WISE_REDUCTION_TYPE"
    [] name = "gemvT" -> "COL_WISE_REDUCTION_TYPE"
    [] name = "gemmNN" -> "MATRIX_PRODUCT_NN_TYPE"
    [] name = "gemmNT" -> "MATRIX_PRODUCT_NT_TYPE"
    [] name = "gemmTN" -> "MATRIX_PRODUCT_TN_TYPE"
    [] name = "gemmTT" -> "MATRIX_PRODUCT_TT_TYPE"
    [] OTHER -> "invalid_argument"

\* detail::get_expression_type
get_expression_type(name) ==
  CASE name = "vaxpy" -> "VECTOR_AXPY_TYPE"
    [] name = "dot" -> "REDUCTION_TYPE"
    [] name = "maxpy" -> "MATRIX_AXPY_TYPE"
    [] name = "gemvN" -> "ROW_WISE_REDUCTION_TYPE"
    [] name = "gemvT" -> "COL_WISE_REDUCTION_TYPE"
    [] name = "gemmNN" -> "MATRIX_PRODUCT_NN_TYPE"
    [] name = "gemmNT" -> "MATRIX_PRODUCT_NT_TYPE"
    [] name = "gemmTN" -> "MATRIX_PRODUCT_TN_TYPE"
    [] name = "gemmTT" -> "MATRIX_PRODUCT_TT_TYPE"
    [] OTHER -> "invalid_argument"

\* detail::get_dtype
get_dtype(name) ==
  CASE name = "float32" -> "FLOAT_TYPE"
    [] name = "float64" -> "DOUBLE_TYPE"
    [] OTHER -> "invalid_argument"

\* detail::create: a[k] of the code is a[k + 1] here
create(template_name, a) ==
  CASE template_name = "vaxpy" -> template("vaxpy", <<a[1], a[2], a[3], fetch[a[4] + 1]>>)
    [] template_name = "dot" -> template("reduction", <<a[1], a[2], a[3], fetch[a[4] + 1]>>)
    [] template_name = "maxpy" ->
         template("maxpy", <<a[1], a[2], a[3], a[4], a[5], fetch[a[6] + 1]>>)
    [] template_name = "gemvN" ->
         template("mreduction_rows", <<a[1], a[2], a[3], a[4], fetch[a[5] + 1]>>)
    [] template_name = "gemvT" ->
         template("mreduction_cols", <<a[1], a[2], a[3], a[4], fetch[a[5] + 1]>>)
    [] template_name = "gemmNN" ->
         template("mproduct_nn", <<a[1], a[2], a[3], a[4], a[5], a[6], a[7],
                                   fetch[a[8] + 1], fetch[a[9] + 1], a[10], a[11]>>)
    [] template_name = "gemmTN" ->
         template("mproduct_tn", <<a[1], a[2], a[3], a[4], a[5], a[6], a[7],
                                   fetch[a[8] + 1], fetch[a[9] + 1], a[10], a[11]>>)
    [] template_name = "gemmNT" ->
         template("mproduct_nt", <<a[1], a[2], a[3], a[4], a[5], a[6], a[7],
                                   fetch[a[8] + 1], fetch[a[9] + 1], a[10], a[11]>>)
    [] template_name = "gemmTT" ->
         template("mproduct_tt", <<a[1], a[2], a[3], a[4], a[5], a[6], a[7],
                                   fetch[a[8] + 1], fetch[a[9] + 1], a[10], a[11]>>)
    [] OTHER -> "invalid_argument"

\* detail::create, lines 187-188: no branch matches the template name
create_throws(template_name) ==
  template_name \notin {"vaxpy", "dot", "maxpy", "gemvN", "gemvT",
                        "gemmNN", "gemmTN", "gemmNT", "gemmTT"}

\* import, line 205-207: the operation names the loop visits, in order
operations == <<"vaxpy", "dot", "maxpy", "gemvN", "gemvT", "gemmNN", "gemmTN", "gemmTT">>

\* import, line 208
dtype == <<"float32", "float64">>

\* import, lines 222-234, in the variant that never attaches a random forest
import_leaf_no_predictor(op, leaf, queue) ==
  model(NoPredictor, [id \in DOMAIN leaf.profiles |-> create(op, leaf.profiles[id])], queue)

\* import, lines 222-234: the model built from one leaf of the document
import_leaf(op, leaf, queue) ==
  LET templates == [id \in DOMAIN leaf.profiles |-> create(op, leaf.profiles[id])]
  IN IF Len(templates) > 1
       THEN model(<<leaf.predictor>>, templates, queue)
       ELSE model(NoPredictor, templates, queue)

\* import, lines 209-238: result with every (operation, data type) leaf of the
\* document, for the names the two loops visit, assigned over
import(document, queue, result) ==
  LET covered ==
        {od \in Range(operations) \X Range(dtype) :
           /\ od[1] \in DOMAIN document
           /\ od[2] \in DOMAIN document[od[1]]}
      leaf_of(key) ==
        CHOOSE od \in covered : <<get_expression_type(od[1]), get_dtype(od[2])>> = key
      keys == {<<get_expression_type(od[1]), get_dtype(od[2])>> : od \in covered}
  IN [key \in (DOMAIN result) \cup keys |->
        IF key \in keys
          THEN import_leaf(leaf_of(key)[1], document[leaf_of(key)[1]][leaf_of(key)[2]], queue)
          ELSE result[key]]

\* import, lines 209-238: whether one of the calls of detail::* made by the
\* two loops throws std::invalid_argument
import_throws(document) ==
  \E op \in Range(operations) :
    /\ op \in DOMAIN document
    /\ \/ get_expression_type(op) = "invalid_argument"
       \/ \E dt \in Range(dtype) :
            /\ dt \in DOMAIN document[op]
            /\ \/ get_dtype(dt) = "invalid_argument"
               \/ document[op][dt].profiles # <<>> /\ create_throws(op)

\* init_models, lines 249-258: the template of the default model of an
\* expression type
default_template(expression) ==
  CASE expression \in {"SCALAR_AXPY_TYPE", "VECTOR_AXPY_TYPE"} ->
         template("vaxpy", <<1, 64, 128, "FETCH_FROM_GLOBAL_STRIDED">>)
    [] expression = "REDUCTION_TYPE" ->
         template("reduction", <<1, 64, 128, "FETCH_FROM_GLOBAL_STRIDED">>)
    [] expression = "MATRIX_AXPY_TYPE" ->
         template("maxpy", <<1, 8, 8, 8, 8, "FETCH_FROM_GLOBAL_STRIDED">>)
    [] expression = "ROW_WISE_REDUCTION_TYPE" ->
         template("mreduction_rows", <<1, 8, 8, 16, "FETCH_FROM_GLOBAL_STRIDED">>)
    [] expression = "COL_WISE_REDUCTION_TYPE" ->
         template("mreduction_cols", <<1, 8, 8, 16, "FETCH_FROM_GLOBAL_STRIDED">>)
    [] expression = "MATRIX_PRODUCT_NN_TYPE" ->
         template("mproduct_nn", <<1, 8, 8, 8, 4, 1, 4, "FETCH_FROM_LOCAL", "FETCH_FROM_LOCAL", 8, 8>>)
    [] expression = "MATRIX_PRODUCT_TN_TYPE" ->
         template("mproduct_tn", <<1, 8, 8, 8, 4, 1, 4, "FETCH_FROM_LOCAL", "FETCH_FROM_LOCAL", 8, 8>>)
    [] expression = "MATRIX_PRODUCT_NT_TYPE" ->
         template("mproduct_nt", <<1, 8, 8, 8, 4, 1, 4, "FETCH_FROM_LOCAL", "FETCH_FROM_LOCAL", 8, 8>>)
    [] expression = "MATRIX_PRODUCT_TT_TYPE" ->
         template("mproduct_tt", <<1, 8, 8, 8, 4, 1, 4, "FETCH_FROM_LOCAL", "FETCH_FROM_LOCAL", 8, 8>>)

\* the numeric types the loop of init_models visits (for i < 10: types[i]);
\* the variant that stops one short
visited_types_short == Range(types_but_last)

visited_types == Range(types)

\* init_models, lines 243-259: the default map, one single-template model
\* without predictor per expression type and numeric type
default_models(queue) ==
  [key \in ExpressionTypes \X visited_types |->
     model(NoPredictor, <<default_template(key[1])>>, queue)]

\* get_model_map, lines 271-272: models.find(queue) != models.end(); the
\* variant that never finds the queue
find_never(registry, queue) == FALSE

find(registry, queue) == queue \in DOMAIN registry

\* the documents ATIDLAS_MODEL_DEVICE_0 can name
Documents ==
  { [op \in {"vaxpy"} |->
       [dt \in {"float32"} |-> [profiles |-> <<<<2, 32, 64, 0>>>>, predictor |-> "none"]]],
    [op \in {"vaxpy", "gemmNN"} |->
       IF op = "vaxpy"
         THEN [dt \in {"float32", "float64"} |->
                 IF dt = "float32"
                   THEN [profiles |-> <<<<1, 64, 128, 1>>, <<4, 32, 256, 2>>>>,
                         predictor |-> "random_forest"]
                   ELSE [profiles |-> <<<<1, 128, 128, 1>>>>, predictor |-> "none"]]
         ELSE [dt \in {"float64"} |->
                 [profiles |-> <<<<1, 8, 8, 8, 4, 1, 4, 0, 0, 8, 8>>,
                                 <<2, 16, 8, 16, 4, 1, 4, 1, 2, 8, 8>>>>,
                  predictor |-> "random_forest"]]] }

\* vaxpy profiles of a description
one_profile == <<<<2, 32, 64, 0>>>>

two_profiles == <<<<1, 64, 128, 1>>, <<4, 32, 256, 2>>>>

\* further descriptions a user can write: an operation name import does not
\* know, a data type name it does not know, a gemmNT entry, and a leaf whose
\* list of profiles is empty
MoreDocuments ==
  { [op \in {"axpby", "vaxpy"} |->
       [dt \in {"float32"} |-> [profiles |-> two_profiles, predictor |-> "random_forest"]]],
    [op \in {"vaxpy"} |->
       [dt \in {"float16", "float32"} |-> [profiles |-> one_profile, predictor |-> "none"]]],
    [op \in {"gemmNT", "vaxpy"} |->
       [dt \in {"float32"} |->
          IF op = "gemmNT"
            THEN [profiles |-> <<<<1, 8, 8, 8, 4, 1, 4, 0, 0, 8, 8>>,
                                 <<2, 16, 8, 16, 4, 1, 4, 1, 2, 8, 8>>>>,
                  predictor |-> "random_forest"]
            ELSE [profiles |-> one_profile, predictor |-> "none"]]],
    [op \in {"dot"} |->
       [dt \in {"float32"} |-> [profiles |-> <<>>, predictor |-> "none"]]] }

(***************************************************************************)
(* State.                                                                  *)
(***************************************************************************)
VARIABLES
  heap,        \* the model objects (new model(...)): identity -> fields
  models,      \* the global registry: queue -> (expression_type, numeric_type) -> model identity
  inflight,    \* per command queue, the enqueued kernels the device has not completed
  th,          \* per caller thread: the call it is in, its position and its locals
  built,       \* per model and program key, how often model::init entered the cache fill
  initialized, \* per queue, how often init_models ran
  aborted,     \* a failed assert has ended the process
  ndebug,      \* the build compiles asserts out
  recorded,    \* history kept by tune_fill_logged: per model and shape, the first and
               \* the last label a tune has written to hardcoded_
  cmodel_file  \* std::getenv("ATIDLAS_MODEL_DEVICE_0"): <<>> when unset, else <<document>>

vars == <<heap, models, inflight, th, built, initialized, aborted, ndebug, recorded, cmodel_file>>

\* a thread outside every call.  Besides the locals of the code a thread
\* records, for the properties below: arg_bypass (the bypass_predictor argument
\* as passed), hit (model::init found a filled set), asked (predict was
\* called), predictions (what predict returned), enqueued (the labels this call
\* has enqueued), compilers (the program set handed to the last enqueue), pre
\* (hardcoded_ when the call began) and overrun (fill_program_name wrote past
\* program_name).
Idle ==
  [pc |-> "idle", op |-> NULL, self |-> NULL, batch |-> NULL,
   bypass_predictor |-> FALSE, force_recompilation |-> FALSE,
   key |-> NULL, i |-> 0, x |-> <<>>, label |-> 0, timings |-> <<>>, asked |-> FALSE,
   predictions |-> <<>>, compilers |-> <<>>,
   arg_bypass |-> FALSE, hit |-> FALSE, enqueued |-> <<>>, pre |-> EmptyMap,
   queue |-> NULL, at |-> <<NULL, NULL>>, res |-> EmptyMap, ret |-> {},
   found |-> FALSE, error |-> NULL, overrun |-> FALSE]

Count(f, k) == IF k \in DOMAIN f THEN f[k] ELSE 0

\* the model object thread t's call is on (this)
callee_of(t) == heap[th[t].self]

\* the program set of thread t's call: to_init of model::init, compilers of
\* execute and tune
to_init(t) == heap[th[t].self].lazy_programs_[th[t].key]

\* a program set is filled when it holds a primary and a fallback program,
\* each with the extension preamble and the source of every template
filled(m, set) ==
  /\ Len(set) = 2
  /\ \A j \in 1..2 : Len(set[j].sources) = 1 + Len(m.templates_)

(***************************************************************************)
(* model::execute and model::tune up to the call of init (lines 85-92 and  *)
(* 114-120).                                                               *)
(***************************************************************************)
\* assert(context() == queue_.getInfo<CL_QUEUE_CONTEXT>()())
context_assert_fails(m, batch) ==
  ~ndebug /\ batch.context # queue_context(m.queue_)

\* the models the host application constructed itself
constructed == {id \in DOMAIN heap : id.queue = NULL}

enter(t, op, id, batch, bypass_predictor, force_recompilation) ==
  /\ ~aborted
  /\ \/ th[t].pc = "idle" /\ id \in constructed
     \/ th[t].pc = "done" /\ id \in th[t].ret
  /\ IF context_assert_fails(heap[id], batch)
       THEN /\ aborted' = TRUE
            /\ th' = th
       ELSE /\ aborted' = aborted
            /\ th' = [th EXCEPT ![t] =
                 [Idle EXCEPT !.pc = "init", !.op = op, !.self = id, !.batch = batch,
                              !.bypass_predictor = bypass_predictor \/ heap[id].predictor_ = NoPredictor,
                              !.force_recompilation = force_recompilation,
                              !.arg_bypass = bypass_predictor,
                              !.pre = heap[id].hardcoded_]]
  /\ UNCHANGED <<heap, models, inflight, built, initialized, ndebug, cmodel_file, recorded>>

\* execute and tune are called on a model the host constructed itself (when
\* the thread is outside every call) or on the reference get_model has just
\* returned: get_model(queue, expression, dtype).tune(batch)

execute_begin ==
  \E t \in DOMAIN th : \E id \in constructed : \E batch \in Batches :
    \E bypass_predictor \in BOOLEAN : \E force_recompilation \in BOOLEAN :
      /\ Len(inflight[heap[id].queue_]) <= MaxQueue
      /\ enter(t, "execute", id, batch, bypass_predictor, force_recompilation)

tune_begin ==
  \E t \in DOMAIN th : \E id \in constructed : \E batch \in Batches :
    enter(t, "tune", id, batch, FALSE, FALSE)

(***************************************************************************)
(* model::init (lines 48-73), one step per statement.                      *)
(***************************************************************************)
\* lines 50-54: the program name, the lookup that creates an empty entry, and
\* the test whether the entry has to be filled
init_lookup ==
  \E t \in DOMAIN th :
    LET id == th[t].self
    IN /\ ~aborted
       /\ th[t].pc = "init"
       /\ \E read \in pname_read(th[t].batch) :
            LET key == <<th[t].batch.context, read.pname>>
                found == IF key \in DOMAIN heap[id].lazy_programs_
                           THEN heap[id].lazy_programs_[key] ELSE <<>>
            IN /\ aborted' = read.crash
               /\ heap' = IF read.crash THEN heap
                          ELSE [heap EXCEPT ![id].lazy_programs_ = MapPut(@, key, found)]
               /\ built' = IF ~read.crash /\ to_init_empty(found)
                             THEN MapPut(built, <<id, key>>, Count(built, <<id, key>>) + 1)
                             ELSE built
               /\ th' = IF read.crash
                          THEN [th EXCEPT ![t].overrun = read.overrun]
                          ELSE IF to_init_empty(found)
                            THEN [th EXCEPT ![t].key = key, ![t].overrun = read.overrun,
                                            ![t].pc = "init_primary"]
                            ELSE [th EXCEPT ![t].key = key, ![t].overrun = read.overrun,
                                            ![t].pc = "init_return", ![t].hit = TRUE]
       /\ UNCHANGED <<models, inflight, initialized, ndebug, cmodel_file, recorded>>

\* to_init.push_back(shell); to_init.back().add(preamble)
push_program(t, fb) ==
  LET id == th[t].self
      key == th[t].key
      shell == lazy_compiler(key[1], [pname |-> key[2], fb |-> fb], th[t].force_recompilation)
  IN heap' = [heap EXCEPT ![id].lazy_programs_[key] =
                Append(@, add(shell, define_extension(device_extensions, "cl_khr_fp64")))]

\* lines 58-59
init_primary ==
  \E t \in DOMAIN th :
    /\ ~aborted
    /\ th[t].pc = "init_primary"
    /\ push_program(t, FALSE)
    /\ th' = [th EXCEPT ![t].pc = "init_fallback"]
    /\ UNCHANGED <<models, inflight, built, initialized, aborted, ndebug, cmodel_file, recorded>>

\* lines 61-62
init_fallback ==
  \E t \in DOMAIN th :
    /\ ~aborted
    /\ th[t].pc = "init_fallback"
    /\ push_program(t, TRUE)
    /\ th' = [th EXCEPT ![t].pc = "init_generate", ![t].i = 0]
    /\ UNCHANGED <<models, inflight, built, initialized, aborted, ndebug, cmodel_file, recorded>>

\* lines 64-70: one round of the loop over templates_, or its exit
init_generate ==
  \E t \in DOMAIN th :
    LET id == th[t].self
        key == th[t].key
        i == th[t].i
    IN /\ ~aborted
       /\ th[t].pc = "init_generate"
       /\ IF i < Len(heap[id].templates_)
            THEN LET cur == generate(heap[id].templates_[i + 1], i, th[t].batch)
                 IN /\ heap' = [heap EXCEPT ![id].lazy_programs_[key] =
                          [j \in DOMAIN @ |-> IF j <= Len(cur) THEN add(@[j], cur[j]) ELSE @[j]]]
                    /\ th' = [th EXCEPT ![t].i = i + 1]
            ELSE /\ heap' = heap
                 /\ th' = [th EXCEPT ![t].pc = "init_return", ![t].i = 0]
       /\ UNCHANGED <<models, inflight, built, initialized, aborted, ndebug, cmodel_file, recorded>>

\* line 72: back in execute (line 94) or in tune (line 122)
init_return ==
  \E t \in DOMAIN th :
    /\ ~aborted
    /\ th[t].pc = "init_return"
    /\ th' = [th EXCEPT ![t].pc = IF th[t].op = "execute" THEN "execute_predict" ELSE "tune_loop",
                        ![t].timings = IF th[t].op = "tune"
                                         THEN [k \in 1..Len(heap[th[t].self].templates_) |-> 0]
                                         ELSE <<>>]
    /\ UNCHANGED <<heap, models, inflight, built, initialized, aborted, ndebug, cmodel_file, recorded>>

(***************************************************************************)
(* model::execute, lines 94-112.                                           *)
(***************************************************************************)
\* templates_[label]->enqueue(queue_, compilers, label, symbolic_expressions)
enqueue(t, label) ==
  LET q == heap[th[t].self].queue_
  IN inflight' = [inflight EXCEPT ![q] =
       Append(@, [op |-> th[t].op, by |-> t, label |-> label])]

\* lines 95-108
execute_predict ==
  \E t \in DOMAIN th :
    LET m == heap[th[t].self]
    IN /\ ~aborted
       /\ th[t].pc = "execute_predict"
       /\ \E read \in sizes_read(m, th[t].batch) :
            LET x == read.x
                branch == execute_branch(m, x, th[t].bypass_predictor)
            IN \E predictions \in (IF branch = "default" /\ ~read.crash
                                     THEN Predictions(Len(m.templates_)) ELSE {<<>>}) :
                 /\ aborted' = read.crash
                 /\ th' = IF read.crash THEN th
                          ELSE [th EXCEPT ![t].pc = "execute_enqueue", ![t].x = x,
                                          ![t].label = execute_label(m, x, branch, predictions),
                                          ![t].asked = (branch = "default"),
                                          ![t].predictions = predictions]
       /\ UNCHANGED <<heap, models, inflight, built, initialized, ndebug, cmodel_file, recorded>>

\* line 111
execute_enqueue ==
  \E t \in DOMAIN th :
    /\ ~aborted
    /\ th[t].pc = "execute_enqueue"
    /\ \E crash \in enqueue_outcomes(callee_of(t), th[t].label) :
         /\ aborted' = crash
         /\ IF crash THEN UNCHANGED <<inflight, th>>
            ELSE /\ enqueue(t, th[t].label)
                 /\ th' = [th EXCEPT ![t].pc = "done", ![t].compilers = to_init(t),
                                     ![t].enqueued = Append(@, th[t].label)]
    /\ UNCHANGED <<heap, models, built, initialized, ndebug, cmodel_file, recorded>>

(***************************************************************************)
(* model::tune, lines 122-136.                                             *)
(***************************************************************************)
\* line 125: the loop test
tune_loop ==
  \E t \in DOMAIN th :
    /\ ~aborted
    /\ th[t].pc = "tune_loop"
    /\ th' = [th EXCEPT ![t].pc = IF th[t].i < Len(heap[th[t].self].templates_)
                                    THEN "tune_enqueue" ELSE "tune_fill"]
    /\ UNCHANGED <<heap, models, inflight, built, initialized, aborted, ndebug, cmodel_file, recorded>>

\* lines 127-128: timer.start(); templates_[i]->enqueue(...)
tune_enqueue ==
  \E t \in DOMAIN th :
    /\ ~aborted
    /\ th[t].pc = "tune_enqueue"
    /\ enqueue(t, th[t].i)
    /\ th' = [th EXCEPT ![t].pc = "tune_finish", ![t].enqueued = Append(@, th[t].i)]
    /\ UNCHANGED <<heap, models, built, initialized, aborted, ndebug, cmodel_file, recorded>>

\* lines 129-130: queue_.finish() blocks until the queue has drained; then
\* timings[i] = timer.get(), some measured duration
tune_finish ==
  \E t \in DOMAIN th : \E duration \in Costs :
    /\ ~aborted
    /\ th[t].pc = "tune_finish"
    /\ finish_returns(inflight[heap[th[t].self].queue_])
    /\ th' = [th EXCEPT ![t].pc = "tune_loop", ![t].i = th[t].i + 1,
                        ![t].timings = SeqSet(@, th[t].i + 1, duration)]
    /\ UNCHANGED <<heap, models, inflight, built, initialized, aborted, ndebug, cmodel_file, recorded>>

\* lines 134-135
tune_fill_step(t) ==
  LET id == th[t].self
  IN /\ ~aborted
     /\ th[t].pc = "tune_fill"
     /\ \E read \in sizes_read(heap[id], th[t].batch) :
          /\ aborted' = read.crash
          /\ heap' = IF read.crash THEN heap
                     ELSE [heap EXCEPT ![id] = fill_override(@, read.x, th[t].timings)]
          /\ th' = IF read.crash THEN th
                   ELSE [th EXCEPT ![t].pc = "done", ![t].x = read.x]
     /\ UNCHANGED <<models, inflight, built, initialized, ndebug, cmodel_file>>

tune_fill ==
  \E t \in DOMAIN th : tune_fill_step(t) /\ UNCHANGED recorded

\* the same step, with the label it writes added to the history
tune_fill_logged ==
  \E t \in DOMAIN th :
    LET at == <<th[t].self, th[t].batch.sizes>>
        written == heap'[th[t].self].hardcoded_[th[t].batch.sizes]
    IN /\ tune_fill_step(t)
       /\ recorded' = MapPut(recorded, at,
            [first |-> IF at \in DOMAIN recorded THEN recorded[at].first ELSE written,
             last |-> written])

\* the call returns to the host application
return ==
  \E t \in DOMAIN th :
    /\ ~aborted
    /\ th[t].pc = "done"
    /\ th' = [th EXCEPT ![t] = Idle]
    /\ UNCHANGED <<heap, models, inflight, built, initialized, aborted, ndebug, cmodel_file, recorded>>

\* the device completes the oldest kernel in flight on a queue
complete ==
  \E q \in Queues :
    /\ ~aborted
    /\ inflight[q] # <<>>
    /\ inflight' = [inflight EXCEPT ![q] = Tail(@)]
    /\ UNCHANGED <<heap, models, th, built, initialized, aborted, ndebug, cmodel_file, recorded>>

(***************************************************************************)
(* One model used by one thread: any sequence of execute and tune calls.   *)
(***************************************************************************)
\* a template of the stand-alone model: a vaxpy profile
profile(i) == template("vaxpy", <<i, 64, 128, "FETCH_FROM_GLOBAL_STRIDED">>)

M0 == [queue |-> NULL, at |-> <<NULL, NULL>>]

InitModel(threads) ==
  /\ \E n \in 1..MaxVariants : \E predictor \in {NoPredictor, <<"random_forest">>} :
       heap = (M0 :> model(predictor, [i \in 1..n |-> profile(i)], "q1"))
  /\ models = EmptyMap
  /\ inflight = [q \in Queues |-> <<>>]
  /\ th = [t \in threads |-> Idle]
  /\ built = EmptyMap
  /\ initialized = [q \in Queues |-> 0]
  /\ aborted = FALSE
  /\ ndebug \in BOOLEAN
  /\ cmodel_file = <<>>
  /\ recorded = EmptyMap

Init == InitModel({1})

Next ==
  \/ execute_begin
  \/ tune_begin
  \/ init_lookup
  \/ init_primary
  \/ init_fallback
  \/ init_generate
  \/ init_return
  \/ execute_predict
  \/ execute_enqueue
  \/ tune_loop
  \/ tune_enqueue
  \/ tune_finish
  \/ tune_fill
  \/ return
  \/ complete

Spec == Init /\ [][Next]_vars

(***************************************************************************)
(* One model shared by two threads that call execute concurrently.  The    *)
(* code takes no lock, so the statements of the two calls interleave.      *)
(***************************************************************************)
InitConcurrent == InitModel({1, 2}) /\ ~ndebug

\* the batches of one program key: structurally identical expressions
SameKeyBatches == {batch \in Batches : program_key(batch) = <<"ctx1", <<"s", 0, 1>>>>}

\* a thread calls execute(batch, bypass_predictor) for a batch of that key
execute_same_key ==
  \E t \in DOMAIN th : \E id \in constructed : \E batch \in SameKeyBatches :
    \E bypass_predictor \in BOOLEAN :
      /\ Len(inflight[heap[id].queue_]) <= MaxQueue
      /\ enter(t, "execute", id, batch, bypass_predictor, FALSE)

\* a thread calls tune(batch) for a batch of that key
tune_same_key ==
  \E t \in DOMAIN th : \E id \in constructed : \E batch \in SameKeyBatches :
    enter(t, "tune", id, batch, FALSE, FALSE)

NextConcurrent ==
  \/ execute_same_key
  \/ init_lookup
  \/ init_primary
  \/ init_fallback
  \/ init_generate
  \/ init_return
  \/ execute_predict
  \/ execute_enqueue
  \/ return
  \/ complete

SpecConcurrent == InitConcurrent /\ [][NextConcurrent]_vars

(***************************************************************************)
(* One model used by one thread for the batches of one program key, with   *)
(* the history of the labels tune has written.                             *)
(***************************************************************************)
InitOverride == InitModel({1}) /\ ~ndebug

NextOverride ==
  \/ execute_same_key
  \/ tune_same_key
  \/ init_lookup
  \/ init_primary
  \/ init_fallback
  \/ init_generate
  \/ init_return
  \/ execute_predict
  \/ execute_enqueue
  \/ tune_loop
  \/ tune_enqueue
  \/ tune_finish
  \/ tune_fill_logged
  \/ return
  \/ complete

SpecOverride == InitOverride /\ [][NextOverride]_vars

(***************************************************************************)
(* One model used by one thread for expression batches that fill the       *)
(* naming buffer of model::init or do not fit into it.                     *)
(***************************************************************************)
\* a batch of n leaves
batch_of(n, sizes) ==
  [context |-> "ctx1", order |-> "SEQUENTIAL", leaves |-> [k \in 1..n |-> "h1"], sizes |-> sizes]

\* a batch whose name and terminating zero fill program_name exactly, and two
\* batches whose names do not fit
NamingBatches ==
  { batch_of(program_name_size - 2, <<64>>),
    batch_of(program_name_size - 1, <<64>>),
    batch_of(program_name_size, <<128>>) }

execute_named ==
  \E t \in DOMAIN th : \E id \in constructed : \E batch \in NamingBatches :
    /\ Len(inflight[heap[id].queue_]) <= MaxQueue
    /\ enter(t, "execute", id, batch, FALSE, FALSE)

tune_named ==
  \E t \in DOMAIN th : \E id \in constructed : \E batch \in NamingBatches :
    enter(t, "tune", id, batch, FALSE, FALSE)

NextNaming ==
  \/ execute_named
  \/ tune_named
  \/ init_lookup
  \/ init_primary
  \/ init_fallback
  \/ init_generate
  \/ init_return
  \/ execute_predict
  \/ execute_enqueue
  \/ tune_loop
  \/ tune_enqueue
  \/ tune_finish
  \/ tune_fill
  \/ return
  \/ complete

SpecNaming == InitOverride /\ [][NextNaming]_vars

(***************************************************************************)
(* get_model_map and get_model (lines 269-281), with init_models           *)
(* (lines 241-262), one step per statement.                                *)
(***************************************************************************)
\* the identity of the model registered for a key of the map of a queue
registered(queue, key) == [queue |-> queue, at |-> key]

\* the (expression_type, numeric_type) pairs get_model is called with
LookedUp ==
  { <<"VECTOR_AXPY_TYPE", "FLOAT_TYPE">>, <<"SCALAR_AXPY_TYPE", "INT_TYPE">>,
    <<"MATRIX_PRODUCT_NT_TYPE", "FLOAT_TYPE">>, <<"MATRIX_PRODUCT_TT_TYPE", "DOUBLE_TYPE">> }

\* the pairs whose registered model the host tunes
Tuned == { <<"VECTOR_AXPY_TYPE", "FLOAT_TYPE">> }

get_begin(t, op, queue, key) ==
  /\ ~aborted
  /\ th[t].pc = "idle"
  /\ th' = [th EXCEPT ![t] = [Idle EXCEPT !.pc = "get_find", !.op = op, !.queue = queue, !.at = key]]
  /\ UNCHANGED <<heap, models, inflight, built, initialized, aborted, ndebug, cmodel_file, recorded>>

\* get_model_map(queue)
get_model_map_begin ==
  \E t \in DOMAIN th : \E queue \in Queues :
    get_begin(t, "get_model_map", queue, <<NULL, NULL>>)

\* get_model(queue, expression, dtype), line 280: the call of get_model_map
get_model_begin ==
  \E t \in DOMAIN th : \E queue \in Queues : \E key \in LookedUp :
    get_begin(t, "get_model", queue, key)

\* lines 271-272
get_find ==
  \E t \in DOMAIN th :
    LET found == find(models, th[t].queue)
    IN /\ ~aborted
       /\ th[t].pc = "get_find"
       /\ th' = [th EXCEPT ![t].found = found,
                           ![t].pc = IF found THEN "get_return" ELSE "init_models"]
       /\ UNCHANGED <<heap, models, inflight, built, initialized, aborted, ndebug, cmodel_file, recorded>>

\* init_models, lines 243-259
init_models_fill ==
  \E t \in DOMAIN th :
    /\ ~aborted
    /\ th[t].pc = "init_models"
    /\ th' = [th EXCEPT ![t].res = default_models(th[t].queue), ![t].pc = "init_models_import"]
    /\ initialized' = [initialized EXCEPT ![th[t].queue] = @ + 1]
    /\ UNCHANGED <<heap, models, inflight, built, aborted, ndebug, cmodel_file, recorded>>

\* init_models, lines 260-262
init_models_import ==
  \E t \in DOMAIN th :
    /\ ~aborted
    /\ th[t].pc = "init_models_import"
    /\ th' = IF cmodel_file # <<>> /\ import_throws(cmodel_file[1])
               THEN [th EXCEPT ![t].res = EmptyMap, ![t].pc = "done",
                               ![t].error = "invalid_argument"]
               ELSE [th EXCEPT ![t].res = IF cmodel_file # <<>>
                                            THEN import(cmodel_file[1], th[t].queue, @)
                                            ELSE @,
                               ![t].pc = "get_insert"]
    /\ UNCHANGED <<heap, models, inflight, built, initialized, aborted, ndebug, cmodel_file, recorded>>

\* line 273: models.insert(std::make_pair(queue, res)) keeps an entry that is
\* already there and drops the map it was given
get_insert ==
  \E t \in DOMAIN th :
    LET queue == th[t].queue
        res == th[t].res
    IN /\ ~aborted
       /\ th[t].pc = "get_insert"
       /\ IF queue \in DOMAIN models
            THEN UNCHANGED <<heap, models>>
            ELSE /\ models' = MapPut(models, queue, [key \in DOMAIN res |-> registered(queue, key)])
                 /\ heap' = [id \in (DOMAIN heap) \cup {registered(queue, key) : key \in DOMAIN res} |->
                               IF id \in DOMAIN heap THEN heap[id] ELSE res[id.at]]
       /\ th' = [th EXCEPT ![t].res = EmptyMap, ![t].pc = "get_return"]
       /\ UNCHANGED <<inflight, built, initialized, aborted, ndebug, cmodel_file, recorded>>

\* lines 273-274: get_model_map returns the map of the queue; line 280:
\* get_model returns *map.at(key), or at throws std::out_of_range
get_return ==
  \E t \in DOMAIN th :
    LET map == models[th[t].queue]
    IN /\ ~aborted
       /\ th[t].pc = "get_return"
       /\ th' = [th EXCEPT ![t].pc = "done",
                           ![t].ret = IF th[t].op = "get_model" /\ th[t].at \in DOMAIN map
                                        THEN {map[th[t].at]} ELSE {},
                           ![t].error = IF th[t].op = "get_model" /\ th[t].at \notin DOMAIN map
                                          THEN "out_of_range" ELSE NULL]
       /\ UNCHANGED <<heap, models, inflight, built, initialized, aborted, ndebug, cmodel_file, recorded>>

\* get_model(queue, expression, dtype).tune(batch)
tune_registered ==
  \E t \in DOMAIN th : \E id \in th[t].ret : \E batch \in Batches :
    /\ id.at \in Tuned
    /\ enter(t, "tune", id, batch, FALSE, FALSE)

(***************************************************************************)
(* The registry used by one thread: get_model_map, get_model and tune on   *)
(* registered models, in any order.                                        *)
(***************************************************************************)
InitRegistry(threads) ==
  /\ heap = EmptyMap
  /\ models = EmptyMap
  /\ inflight = [q \in Queues |-> <<>>]
  /\ th = [t \in threads |-> Idle]
  /\ built = EmptyMap
  /\ initialized = [q \in Queues |-> 0]
  /\ aborted = FALSE
  /\ ndebug = FALSE
  /\ cmodel_file \in {<<>>} \cup {<<document>> : document \in Documents}
  /\ recorded = EmptyMap

NextRegistry ==
  \/ get_model_map_begin
  \/ get_model_begin
  \/ get_find
  \/ init_models_fill
  \/ init_models_import
  \/ get_insert
  \/ get_return
  \/ tune_registered
  \/ init_lookup
  \/ init_primary
  \/ init_fallback
  \/ init_generate
  \/ init_return
  \/ tune_loop
  \/ tune_enqueue
  \/ tune_finish
  \/ tune_fill
  \/ return
  \/ complete

SpecRegistry == InitRegistry({1}) /\ [][NextRegistry]_vars

(***************************************************************************)
(* The registry resolved by two threads concurrently; get_model_map takes  *)
(* no lock.                                                                *)
(***************************************************************************)
NextRegistryConcurrent ==
  \/ get_model_map_begin
  \/ get_find
  \/ init_models_fill
  \/ init_models_import
  \/ get_insert
  \/ get_return
  \/ return

SpecRegistryConcurrent == InitRegistry({1, 2}) /\ [][NextRegistryConcurrent]_vars

(***************************************************************************)
(* The registry built with any description, used by one thread: get_model  *)
(* and execute on the model it returns.                                    *)
(***************************************************************************)
\* the (expression_type, numeric_type) pairs get_model is called with here
ImportLookedUp ==
  { <<"VECTOR_AXPY_TYPE", "FLOAT_TYPE">>, <<"REDUCTION_TYPE", "FLOAT_TYPE">>,
    <<"MATRIX_PRODUCT_NT_TYPE", "FLOAT_TYPE">> }

get_model_imported_begin ==
  \E t \in DOMAIN th : \E queue \in Queues : \E key \in ImportLookedUp :
    get_begin(t, "get_model", queue, key)

\* get_model(queue, expression, dtype).execute(batch, bypass_predictor), for a
\* batch of the context of the queue
execute_registered ==
  \E t \in DOMAIN th : \E id \in th[t].ret : \E batch \in SameKeyBatches :
    \E bypass_predictor \in BOOLEAN :
      /\ batch.context = queue_context(id.queue)
      /\ Len(inflight[heap[id].queue_]) <= MaxQueue
      /\ enter(t, "execute", id, batch, bypass_predictor, FALSE)

InitImport ==
  /\ heap = EmptyMap
  /\ models = EmptyMap
  /\ inflight = [q \in Queues |-> <<>>]
  /\ th = [t \in {1} |-> Idle]
  /\ built = EmptyMap
  /\ initialized = [q \in Queues |-> 0]
  /\ aborted = FALSE
  /\ ndebug = FALSE
  /\ cmodel_file \in {<<document>> : document \in Documents \cup MoreDocuments}
  /\ recorded = EmptyMap

NextImport ==
  \/ get_model_imported_begin
  \/ get_find
  \/ init_models_fill
  \/ init_models_import
  \/ get_insert
  \/ get_return
  \/ execute_registered
  \/ init_lookup
  \/ init_primary
  \/ init_fallback
  \/ init_generate
  \/ init_return
  \/ execute_predict
  \/ execute_enqueue
  \/ return
  \/ complete

SpecImport == InitImport /\ [][NextImport]_vars

(***************************************************************************)
(* Properties.                                                             *)
(***************************************************************************)
\* an execute or tune call of thread t has run to its end
finished(t, op) == th[t].pc = "done" /\ th[t].op = op

\* the input sizes of the batch of thread t's call, as variant 0 reports them
shape(t) == th[t].batch.sizes

\* the model thread t's call is on
callee(t) == heap[th[t].self]

\* l is the lowest 0-based index of a smallest element of v
lowest_argmin(v, l) ==
  /\ l + 1 \in DOMAIN v
  /\ \A k \in DOMAIN v : v[l + 1] <= v[k]
  /\ \A k \in DOMAIN v : k < l + 1 => v[k] > v[l + 1]

\* the build phase of model::init
BuildPcs == {"init_primary", "init_fallback", "init_generate"}

\* the history of thread t's model at the shape of its batch
history(t) == recorded[<<th[t].self, shape(t)>>]

\* C1 as stated (override beats predictor, for ever): once a tune has written
\* label v for a shape, every later execute for that shape enqueues v, with or
\* without a predictor and for both values of bypass_predictor.
C1_FirstOverrideForEver ==
  \A t \in DOMAIN th :
    (finished(t, "execute") /\ <<th[t].self, shape(t)>> \in DOMAIN recorded)
      => th[t].enqueued = <<history(t).first>>

\* C1 amended (override beats predictor): an execute for a shape that a tune
\* has written enqueues the label the most recent tune for that shape wrote,
\* which is the entry of hardcoded_, with or without a predictor and for both
\* values of bypass_predictor.
C1_OverrideBeatsPredictor ==
  \A t \in DOMAIN th :
    (finished(t, "execute") /\ <<th[t].self, shape(t)>> \in DOMAIN recorded)
      => /\ shape(t) \in DOMAIN callee(t).hardcoded_
         /\ callee(t).hardcoded_[shape(t)] = history(t).last
         /\ th[t].enqueued = <<history(t).last>>

\* C1 witness: a model with a predictor and two templates, the shape tuned
\* twice with different outcomes, the predictor not bypassed, and the execute
\* has enqueued.
C1_Witness ==
  \E t \in DOMAIN th :
    /\ finished(t, "execute")
    /\ <<th[t].self, shape(t)>> \in DOMAIN recorded
    /\ history(t).first # history(t).last
    /\ callee(t).predictor_ # NoPredictor
    /\ ~th[t].arg_bypass
    /\ Len(callee(t).templates_) >= 2
    /\ th[t].enqueued # <<>>

\* C2 (cache idempotence): under any sequence of execute and tune calls the
\* cache fill of model::init is entered exactly once for every key present in
\* lazy_programs_, and a step outside that fill (in particular every later
\* call with the same key) leaves every existing program set as it is, while
\* a step of the fill touches the set of its own key only.
C2_CacheIdempotence ==
  /\ [](\A id \in DOMAIN heap : \A key \in DOMAIN heap[id].lazy_programs_ :
          Count(built, <<id, key>>) = 1)
  /\ [][\A t \in DOMAIN th : \A id \in DOMAIN heap : \A key \in DOMAIN heap[id].lazy_programs_ :
          (\/ th[t].pc \notin BuildPcs
           \/ <<id, key>> # <<th[t].self, th[t].key>>)
            => heap'[id].lazy_programs_[key] = heap[id].lazy_programs_[key]]_vars

\* C2 witness: a call has left model::init on a cache hit, with the set filled
\* by an earlier call for a different batch of the same key.
C2_Witness ==
  \E t \in DOMAIN th :
    /\ th[t].pc = "init_return"
    /\ th[t].hit
    /\ filled(callee(t), to_init(t))
    /\ th[t].batch.leaves = <<"h2", "h1">>

\* C3 (concurrent executes build once): whatever the interleaving of two
\* execute calls for one program key, the cache fill is entered at most once
\* for the key, the set never holds more than its primary and its fallback
\* program, and the set handed to enqueue is filled.
C3_ConcurrentSingleBuild ==
  /\ \A id \in DOMAIN heap : \A key \in DOMAIN heap[id].lazy_programs_ :
       /\ Count(built, <<id, key>>) <= 1
       /\ Len(heap[id].lazy_programs_[key]) <= 2
  /\ \A t \in DOMAIN th :
       finished(t, "execute") => filled(callee(t), th[t].compilers)

\* C4 (predictor selection): an execute on a model with a predictor, not
\* bypassed, for a shape without override, enqueues the variant of minimal
\* predicted cost, the lowest index among equal costs.
C4_PredictorSelection ==
  \A t \in DOMAIN th :
    (/\ finished(t, "execute")
     /\ shape(t) \notin DOMAIN callee(t).hardcoded_
     /\ ~th[t].arg_bypass
     /\ callee(t).predictor_ # NoPredictor)
      => /\ th[t].asked
         /\ Len(th[t].enqueued) = 1
         /\ lowest_argmin(th[t].predictions, th[t].enqueued[1])

\* C4 witness: the predictor was asked and returned the same cost for two
\* variants.
C4_Witness ==
  \E t \in DOMAIN th :
    /\ finished(t, "execute")
    /\ th[t].asked
    /\ Len(th[t].predictions) >= 2
    /\ th[t].predictions[1] = th[t].predictions[2]
    /\ th[t].enqueued = <<0>>

\* C5 (bypass default): an execute for a shape without override, on a model
\* without predictor or with bypass_predictor passed as true, enqueues variant
\* 0 and does not call predict.
C5_BypassDefault ==
  \A t \in DOMAIN th :
    (/\ finished(t, "execute")
     /\ shape(t) \notin DOMAIN callee(t).hardcoded_
     /\ (callee(t).predictor_ = NoPredictor \/ th[t].arg_bypass))
      => /\ th[t].enqueued = <<0>>
         /\ ~th[t].asked

\* C5 witness: the bypass was requested on a model that has a predictor and
\* two templates.
C5_Witness ==
  \E t \in DOMAIN th :
    /\ finished(t, "execute")
    /\ shape(t) \notin DOMAIN callee(t).hardcoded_
    /\ th[t].arg_bypass
    /\ callee(t).predictor_ # NoPredictor
    /\ Len(callee(t).templates_) >= 2
    /\ th[t].enqueued = <<0>>

\* C6 (tune records the argmin): when tune ends, hardcoded_ at the shape of the
\* batch holds the lowest index among the variants of smallest measured
\* duration, whatever it held before.
C6_TuneRecordsArgmin ==
  \A t \in DOMAIN th :
    finished(t, "tune")
      => /\ shape(t) \in DOMAIN callee(t).hardcoded_
         /\ lowest_argmin(th[t].timings, callee(t).hardcoded_[shape(t)])

\* C6 witness: two variants measured equal, and the entry that held variant 1
\* now holds variant 0.
C6_Witness ==
  \E t \in DOMAIN th :
    /\ finished(t, "tune")
    /\ Len(th[t].timings) >= 2
    /\ th[t].timings[1] = th[t].timings[2]
    /\ shape(t) \in DOMAIN th[t].pre
    /\ th[t].pre[shape(t)] = 1
    /\ callee(t).hardcoded_[shape(t)] = 0

\* the kernels thread t's tune has in flight
tuned_in_flight(t) ==
  {k \in DOMAIN inflight[callee(t).queue_] :
     inflight[callee(t).queue_][k].op = "tune" /\ inflight[callee(t).queue_][k].by = t}

\* C7 (tune serialises the variants): a tune enqueues the variants 0, 1, ... in
\* this order, each once and all of them by its end; it has at most one of
\* them in flight, and none when it enqueues the next.
C7_TuneSerialises ==
  \A t \in DOMAIN th :
    th[t].op = "tune"
      => /\ th[t].enqueued = [k \in 1..Len(th[t].enqueued) |-> k - 1]
         /\ finished(t, "tune") => Len(th[t].enqueued) = Len(callee(t).templates_)
         /\ Cardinality(tuned_in_flight(t)) <= 1
         /\ th[t].pc \in {"tune_loop", "tune_enqueue", "tune_fill", "done"}
              => tuned_in_flight(t) = {}

\* C7 witness: the second variant of a tune is in flight, alone.
C7_Witness ==
  \E t \in DOMAIN th :
    /\ th[t].op = "tune"
    /\ th[t].pc = "tune_finish"
    /\ th[t].enqueued = <<0, 1>>
    /\ Len(inflight[callee(t).queue_]) = 1
    /\ inflight[callee(t).queue_][1].label = 1

\* every key init_models registers
AllKeys == ExpressionTypes \X Range(types)

\* C8 (registry caching): init_models, and with it the import, runs at most
\* once per queue and exactly once for a queue that has a map; the map of a
\* queue, once inserted, keeps referring to the same model objects; and an
\* override held by a registered model stays, changed only by a tune of that
\* model for that shape.
C8_RegistryCaching ==
  /\ [](\A q \in Queues :
          /\ initialized[q] <= 1
          /\ q \in DOMAIN models => initialized[q] = 1)
  /\ [][\A q \in DOMAIN models :
          /\ q \in DOMAIN models'
          /\ models'[q] = models[q]
          /\ \A key \in DOMAIN models[q] :
               LET id == models[q][key]
               IN /\ id \in DOMAIN heap'
                  /\ \A x \in DOMAIN heap[id].hardcoded_ :
                       /\ x \in DOMAIN heap'[id].hardcoded_
                       /\ \/ heap'[id].hardcoded_[x] = heap[id].hardcoded_[x]
                          \/ \E t \in DOMAIN th :
                               th[t].pc = "tune_fill" /\ th[t].self = id /\ shape(t) = x]_vars

\* C8 witness: a get_model that found the map of its queue in the registry
\* returns a model that carries an override of an earlier tune.
C8_Witness ==
  \E t \in DOMAIN th :
    /\ th[t].pc = "done"
    /\ th[t].op = "get_model"
    /\ th[t].found
    /\ \E id \in th[t].ret : heap[id].hardcoded_ # EmptyMap

\* C9 (concurrent gets build once): whatever the interleaving of get_model_map
\* calls of two threads, init_models runs at most once per queue.
C9_ConcurrentRegistryBuild ==
  \A q \in Queues : initialized[q] <= 1

\* C10 (registry exhaustiveness): the map of a queue holds a model for each of
\* the 10 x 10 pairs of expression type and numeric type, before and after the
\* import and once inserted, so get_model never ends in std::out_of_range.
C10_RegistryExhaustive ==
  /\ Cardinality(AllKeys) = 100
  /\ \A q \in DOMAIN models :
       /\ DOMAIN models[q] = AllKeys
       /\ \A key \in AllKeys : models[q][key] \in DOMAIN heap
  /\ \A t \in DOMAIN th :
       /\ th[t].pc \in {"init_models_import", "get_insert"} => DOMAIN th[t].res = AllKeys
       /\ th[t].error # "out_of_range"

\* C10 witness: with a description imported, get_model has returned the model
\* of the last expression type and the last numeric type.
C10_Witness ==
  \E t \in DOMAIN th :
    /\ th[t].pc = "done"
    /\ th[t].op = "get_model"
    /\ th[t].at = <<"MATRIX_PRODUCT_TT_TYPE", "DOUBLE_TYPE">>
    /\ cmodel_file # <<>>
    /\ th[t].ret # {}

\* the description named by ATIDLAS_MODEL_DEVICE_0
description == cmodel_file[1]

\* the (operation, data type) leaves of a description that import reads
imported_leaves(document) ==
  {od \in Range(operations) \X Range(dtype) :
     od[1] \in DOMAIN document /\ od[2] \in DOMAIN document[od[1]]}

\* C11 (import attaches a predictor exactly for several profiles): the model
\* registered for an imported leaf has one template per profile, in the order
\* of the profiles, no predictor for a leaf of one profile and the leaf's
\* random forest for two or more; and an execute without override and without
\* bypass on such a model, whose predict returns <<2, 1>>, enqueues variant 1.
C11_ImportPredictor ==
  /\ \A q \in DOMAIN models : \A od \in imported_leaves(description) :
       LET leaf == description[od[1]][od[2]]
           m == heap[models[q][<<get_expression_type(od[1]), get_dtype(od[2])>>]]
       IN /\ Len(m.templates_) = Len(leaf.profiles)
          /\ \A i \in DOMAIN leaf.profiles : m.templates_[i] = create(od[1], leaf.profiles[i])
          /\ Len(leaf.profiles) = 1 => m.predictor_ = NoPredictor
          /\ Len(leaf.profiles) >= 2 => m.predictor_ = <<leaf.predictor>>
  /\ \A t \in DOMAIN th :
       (/\ finished(t, "execute")
        /\ Len(callee(t).templates_) = 2
        /\ ~th[t].arg_bypass
        /\ shape(t) \notin DOMAIN callee(t).hardcoded_)
         => /\ th[t].asked
            /\ th[t].predictions = <<2, 1>> => th[t].enqueued = <<1>>

\* C11 witness: an execute on the registered model of a two-profile leaf, whose
\* predictor returned <<2, 1>>, has enqueued variant 1.
C11_Witness ==
  \E t \in DOMAIN th :
    /\ finished(t, "execute")
    /\ th[t].self.queue # NULL
    /\ callee(t).predictor_ = <<"random_forest">>
    /\ Len(callee(t).templates_) = 2
    /\ th[t].predictions = <<2, 1>>
    /\ th[t].enqueued = <<1>>

\* the operation names and data type names a description may use
documented_operations ==
  {"vaxpy", "dot", "maxpy", "gemvN", "gemvT", "gemmNN", "gemmTN", "gemmTT", "gemmNT"}

documented_dtypes == {"float32", "float64"}

\* a description with an operation name or a data type name outside these
malformed(document) ==
  \E op \in DOMAIN document :
    \/ op \notin documented_operations
    \/ \E dt \in DOMAIN document[op] : dt \notin documented_dtypes

\* thread t's get_model has run init_models, and with it the import
imported(t) ==
  \/ th[t].pc = "get_insert"
  \/ th[t].op = "get_model" /\ th[t].pc \in {"get_return", "done"} /\ ~th[t].found

\* C12 (unknown names are rejected): the import of a description with an
\* unknown operation name or data type name ends in std::invalid_argument.
C12_UnknownNamesRejected ==
  \A t \in DOMAIN th :
    (imported(t) /\ malformed(description)) => th[t].error = "invalid_argument"

\* C13 (import honours every documented operation): for every documented
\* operation of the description with a float32 or float64 leaf, the registered
\* model of the corresponding key is the one built from the profiles of that leaf.
C13_ImportHonoursDocumented ==
  \A q \in DOMAIN models :
    \A op \in documented_operations \cap DOMAIN description :
      \A dt \in documented_dtypes \cap DOMAIN description[op] :
        LET m == heap[models[q][<<get_expression_type(op), get_dtype(dt)>>]]
            built_from_leaf == import_leaf(op, description[op][dt], q)
        IN /\ m.templates_ = built_from_leaf.templates_
           /\ m.predictor_ = built_from_leaf.predictor_

\* C14 (at least one variant): every registered model has at least one
\* template, and no execute on a registered model crashes.
C14_AtLeastOneVariant ==
  /\ \A q \in DOMAIN models : \A key \in DOMAIN models[q] :
       Len(heap[models[q][key]].templates_) >= 1
  /\ ~aborted

\* the keys of the leaves a description holds
described_keys(document) ==
  {<<get_expression_type(od[1]), get_dtype(od[2])>> :
     od \in {od \in (DOMAIN document) \X UNION {DOMAIN document[o] : o \in DOMAIN document} :
               od[2] \in DOMAIN document[od[1]]}}

\* m is the model init_models registers for an expression type by default
is_default(m, expression, queue) ==
  /\ m.templates_ = <<default_template(expression)>>
  /\ m.predictor_ = NoPredictor
  /\ m.queue_ = queue

\* C20 (import changes only what it covers): in the map import has worked on
\* and in the registered map, every entry of a numeric type other than float
\* and double, every scalar-axpy entry and every entry whose (operation, data
\* type) leaf the description does not hold is the default model: one
\* template, no predictor.
C20_ImportFrame ==
  LET untouched(key) ==
        \/ key[2] \notin {"FLOAT_TYPE", "DOUBLE_TYPE"}
        \/ key[1] = "SCALAR_AXPY_TYPE"
        \/ key \notin described_keys(description)
  IN /\ \A q \in DOMAIN models : \A key \in AllKeys :
          untouched(key) => is_default(heap[models[q][key]], key[1], q)
     /\ \A t \in DOMAIN th : \A key \in AllKeys :
          (th[t].pc = "get_insert" /\ untouched(key))
            => is_default(th[t].res[key], key[1], th[t].queue)

\* C20 witness: a map is registered whose vaxpy/float32 entry was replaced by
\* the two-profile model of a description that also holds gemmNN.
C20_Witness ==
  \E q \in DOMAIN models :
    /\ {"vaxpy", "gemmNN"} \subseteq DOMAIN description
    /\ Len(heap[models[q][<<"VECTOR_AXPY_TYPE", "FLOAT_TYPE">>]].templates_) = 2
    /\ is_default(heap[models[q][<<"VECTOR_AXPY_TYPE", "INT_TYPE">>]], "VECTOR_AXPY_TYPE", q)

\* the program sets no call is building
complete_sets ==
  {ik \in UNION {{<<id, key>> : key \in DOMAIN heap[id].lazy_programs_} : id \in DOMAIN heap} :
     \A t \in DOMAIN th :
       th[t].pc \in BuildPcs => <<th[t].self, th[t].key>> # ik}

\* C15 as stated (one program per variant): a program set has as many
\* programs as the model has templates.
C15_SetLengthIsVariantCount ==
  \A ik \in complete_sets :
    Len(heap[ik[1]].lazy_programs_[ik[2]]) = Len(heap[ik[1]].templates_)

\* C15 amended (two programs per set): a program set holds two programs,
\* the one named by the fingerprint and its fallback, for a model of any number
\* of templates.
C15_SetHoldsProgramAndFallback ==
  \A ik \in complete_sets :
    LET set == heap[ik[1]].lazy_programs_[ik[2]]
    IN /\ Len(set) = 2
       /\ set[1].name = [pname |-> ik[2][2], fb |-> FALSE]
       /\ set[2].name = [pname |-> ik[2][2], fb |-> TRUE]
       /\ set[1].context = ik[2][1]
       /\ set[2].context = ik[2][1]

\* C15 witness: a call on a model of one template has its program set, of two
\* programs, in hand.
C15_Witness ==
  \E t \in DOMAIN th :
    /\ th[t].pc \in {"execute_predict", "tune_loop"}
    /\ Len(callee(t).templates_) = 1
    /\ ~th[t].hit
    /\ Len(to_init(t)) = 2

\* C16 (force_recompilation on a cache hit): an execute called with
\* force_recompilation that finds its program set in the cache hands programs
\* to enqueue that are flagged for recompilation, or has rebuilt the set.
C16_ForceRebuildsOnHit ==
  \A t \in DOMAIN th :
    (finished(t, "execute") /\ th[t].force_recompilation /\ th[t].hit)
      => \/ \A j \in DOMAIN th[t].compilers : th[t].compilers[j].force_recompilation
         \/ Count(built, <<th[t].self, th[t].key>>) > 1

\* C18 (context precondition): no execute or tune goes on for a batch of
\* another context than the one of the model's queue, and no program set is
\* cached under such a context.
C18_ContextPrecondition ==
  /\ \A t \in DOMAIN th :
       th[t].op \in {"execute", "tune"} => th[t].batch.context = queue_context(callee(t).queue_)
  /\ \A id \in DOMAIN heap : \A key \in DOMAIN heap[id].lazy_programs_ :
       key[1] = queue_context(heap[id].queue_)

\* C19 (the override table changes only inside tune): during and at the end
\* of an execute hardcoded_ is what it was when the call began, the call
\* enqueues one variant and never is at queue_.finish(); during a tune the
\* table is unchanged up to the final assignment, which leaves the entries of
\* all shapes but the one of the batch as they were.
C19_OverrideFrame ==
  \A t \in DOMAIN th :
    /\ th[t].op = "execute"
         => /\ callee(t).hardcoded_ = th[t].pre
            /\ Len(th[t].enqueued) = IF th[t].pc = "done" THEN 1 ELSE 0
            /\ th[t].pc # "tune_finish"
    /\ th[t].op = "tune"
         => /\ th[t].pc # "done" => callee(t).hardcoded_ = th[t].pre
            /\ \A x \in (DOMAIN callee(t).hardcoded_ \cup DOMAIN th[t].pre) \ {shape(t)} :
                 /\ x \in DOMAIN callee(t).hardcoded_
                 /\ x \in DOMAIN th[t].pre
                 /\ callee(t).hardcoded_[x] = th[t].pre[x]

\* C19 witness: a tune has changed the entry of its shape while the table
\* holds an entry of another shape.
C19_Witness ==
  \E t \in DOMAIN th :
    /\ finished(t, "tune")
    /\ shape(t) \in DOMAIN th[t].pre
    /\ th[t].pre[shape(t)] # callee(t).hardcoded_[shape(t)]
    /\ DOMAIN th[t].pre # {shape(t)}

\* the characters fill_program_name writes for a batch: the name and the
\* terminating zero
written(batch) == Len(fill_program_name(batch, "BIND_TO_HANDLE")) + 1

\* C17 (fingerprint length cap): no call writes past program_name, and a call
\* for a batch whose name does not fit the buffer stops before the cache
\* lookup, so that no call uses a program set cached under a cut name.
C17_FingerprintCap ==
  /\ \A t \in DOMAIN th :
       /\ ~th[t].overrun
       /\ (th[t].op \in {"execute", "tune"} /\ written(th[t].batch) > program_name_size)
            => th[t].pc = "init"
  /\ \A t \in DOMAIN th :
       (th[t].op \in {"execute", "tune"} /\ th[t].pc \notin {"idle", "init"})
         => th[t].key = <<th[t].batch.context, fill_program_name(th[t].batch, "BIND_TO_HANDLE")>>

====
